---- MODULE Spec2Model ----
(***************************************************************************)
(* Model of src/src/App.js: the range-bet pricing functions and the state  *)
(* and handlers of the ParlayBuilder component.                            *)
(*                                                                         *)
(* JavaScript numbers are IEEE-754 binary64 values and are modelled bit    *)
(* for bit, as records [k, s, e, hi, lo]: k = "fin" for the finite number  *)
(* s * (hi * 2^26 + lo) * 2^e with sign s = 1 / -1 and a 53-bit            *)
(* significand split in two halves (2^26 <= hi < 2^27 for a normal number, *)
(* e = E_MIN and hi < 2^26 for a subnormal one, e = hi = lo = 0 for +0 and *)
(* -0), k = "inf" for +Infinity / -Infinity and k = "nan" for NaN.  The    *)
(* operators +, -, *, / and Math.sqrt round to nearest, ties to even, as   *)
(* the hardware does.  Math.tanh is V8's base::ieee754::tanh, taken from   *)
(* fdlibm (s_tanh.c, s_expm1.c) and followed here operation by operation,  *)
(* so that the rounding of every intermediate result is the code's.        *)
(* Math.pow is V8's base::ieee754::pow, its version of fdlibm's            *)
(* __ieee754_pow (e_pow.c), followed in the same way after the special     *)
(* cases of Number::exponentiate: its result is close to the power and is  *)
(* not always the nearest double.  A string made                           *)
(* by toFixed(2) or toISOString() is a record with k = "str" holding the   *)
(* fields the characters spell.                                            *)
(***************************************************************************)
EXTENDS Integers, Sequences, FiniteSets

\* ------------------------------------------------------------ number model

\* a significand is kept as two parts hi and lo, hi * 2^26 + lo
B26 == 2 ^ 26
\* the exponent e of the largest and of the smallest binade, for a
\* significand read as an integer of 53 bits
E_MAX == 1023 - 52
E_MIN == 0 - 1022 - 52

\* Eval(fn, arg) applies the operator named fn to the arguments arg: an
\* operator below that is defined through Eval has its body there, in the
\* arm of its name
RECURSIVE Eval(_, _)

\* the result of a computation given as the sequence of its steps, which
\* are taken in this order
Last(steps) == steps[Len(steps)]

\* the finite number s * (hi * 2^26 + lo) * 2^e
Fin(s, e, hi, lo) == [k |-> "fin", s |-> s, e |-> e, hi |-> hi, lo |-> lo]
\* +0 and -0
Zero(s) == Fin(s, 0, 0, 0)
\* +Infinity and -Infinity
Inf(s) == [k |-> "inf", s |-> s, e |-> 0, hi |-> 0, lo |-> 0]
NaN == [k |-> "nan", s |-> 1, e |-> 0, hi |-> 0, lo |-> 0]
IsZero(a) == a.k = "fin" /\ a.hi = 0 /\ a.lo = 0

\* (gh*2^29 + gl) shifted right by d bits; a lost bit is kept in bit 0
ShiftRightJam(gh, gl, d) == Eval("ShiftRightJam", <<gh, gl, d>>)

\* round to nearest, ties to even: the significand hi*2^26 + lo, the first
\* dropped bit r and whether any later dropped bit is set
RoundPack(s, e, hi, lo, r, st) == Eval("RoundPack", <<s, e, hi, lo, r, st>>)

\* the double nearest to (hi*2^26 + lo + r/2 + ...) * 2^e for a normalised
\* significand (hi >= 2^26); below the normal range the significand loses
\* its low bits, kept in three guard bits, before it is rounded
Pack(s, e, hi, lo, r, st) == Eval("Pack", <<s, e, hi, lo, r, st>>)

\* n = [e, h, l], the value (h*2^w + l) * 2^e with l < 2^w: shifted left
\* by k bits when h is below 2^(27-k)
ShiftLeftIf(n, k, w) == Eval("ShiftLeftIf", <<n, k, w>>)

\* the same value with 2^26 <= h < 2^27, for a non-zero h*2^w + l < 2^(27+w)
NormLeft(e, h, l, w) == Eval("NormLeft", <<e, h, l, w>>)

\* a finite non-zero number with a normalised significand (a subnormal gets
\* an exponent below E_MIN)
Norm(a) == Eval("Norm", <<a>>)

\* an integer |i| < 2^31 as a number
FromInt(i) == Eval("FromInt", <<i>>)

\* unary minus and Math.abs
NNeg(a) == IF a.k = "nan" THEN a ELSE [a EXCEPT !.s = -a.s]
NAbs(a) == IF a.k = "nan" THEN a ELSE [a EXCEPT !.s = 1]

\* ---- multiplication ----
\* the exact product of two normalised significands in base 2^13: the digits
\* n0 .. n5 and the leading part t6
MulLimbs(a, b) ==
  LET a0 == a.lo % (2 ^ 13)
      a1 == a.lo \div (2 ^ 13)
      a2 == a.hi % (2 ^ 13)
      a3 == a.hi \div (2 ^ 13)
      b0 == b.lo % (2 ^ 13)
      b1 == b.lo \div (2 ^ 13)
      b2 == b.hi % (2 ^ 13)
      b3 == b.hi \div (2 ^ 13)
      t0 == a0 * b0
      t1 == a0 * b1 + a1 * b0 + t0 \div (2 ^ 13)
      t2 == a0 * b2 + a1 * b1 + a2 * b0 + t1 \div (2 ^ 13)
      t3 == a0 * b3 + a1 * b2 + a2 * b1 + a3 * b0 + t2 \div (2 ^ 13)
      t4 == a1 * b3 + a2 * b2 + a3 * b1 + t3 \div (2 ^ 13)
      t5 == a2 * b3 + a3 * b2 + t4 \div (2 ^ 13)
  IN  [n0 |-> t0 % (2 ^ 13), n1 |-> t1 % (2 ^ 13), n2 |-> t2 % (2 ^ 13), n3 |-> t3 % (2 ^ 13),
       n4 |-> t4 % (2 ^ 13), n5 |-> t5 % (2 ^ 13), t6 |-> a3 * b3 + t5 \div (2 ^ 13)]

\* the double of sign s nearest to p * 2^e, p the digits of a product
MulRound(s, e, p) ==
  IF p.t6 < (2 ^ 27)
  THEN Pack(s, e + 52, p.t6, p.n5 * (2 ^ 13) + p.n4, p.n3 \div (2 ^ 12),
            p.n3 % (2 ^ 12) # 0 \/ p.n0 + p.n1 + p.n2 # 0)
  ELSE Pack(s, e + 53, p.t6 \div 2, (p.t6 % 2) * (2 ^ 25) + (p.n5 * (2 ^ 13) + p.n4) \div 2,
            p.n4 % 2, p.n3 # 0 \/ p.n0 + p.n1 + p.n2 # 0)

\* |a| * |b| for normalised significands, sign s
MulCore(s, a, b) == MulRound(s, a.e + b.e, MulLimbs(a, b))

\* a * b
NMul(a, b) == Eval("NMul", <<a, b>>)

\* ---- comparison ----
\* |a| < |b| for finite numbers
MagLt(a, b) == Eval("MagLt", <<a, b>>)

\* a < b as JavaScript's < decides it (false when either side is NaN)
NLt(a, b) == Eval("NLt", <<a, b>>)

\* a > b, a <= b, a >= b
NGt(a, b) == Eval("NGt", <<a, b>>)
NLe(a, b) == Eval("NLe", <<a, b>>)
NGe(a, b) == Eval("NGe", <<a, b>>)

\* Math.min of two numbers
NMin(a, b) == Eval("NMin", <<a, b>>)

\* ---- addition ----
\* round n = [e, h, l], (h*2^29 + l) * 2^(e-3) with 2^26 <= h < 2^27; st
\* tells that a bit below l was dropped
AddRound(s, n, st) == Eval("AddRound", <<s, n, st>>)

\* round (gh*2^29 + gl) * 2^(e-3), whose last three bits are guard bits
AddNorm(s, e, gh, gl) ==
  IF gh >= (2 ^ 27)
  THEN AddRound(s, [e |-> e + 1, h |-> gh \div 2, l |-> gl \div 2 + (gh % 2) * (2 ^ 28)],
                gl % 2 = 1)
  ELSE IF gh < B26 THEN AddRound(s, NormLeft(e, gh, gl, 29), FALSE)
  ELSE AddRound(s, [e |-> e, h |-> gh, l |-> gl], FALSE)

\* a + sg * y for the significand y = [h, l] of the smaller number, aligned
\* to the exponent of a with three guard bits; sg = -1 subtracts
AddAligned(a, sg, y) ==
  LET l == a.lo * 8 + sg * y.l
      h == a.hi + sg * y.h + l \div (2 ^ 29)
  IN  IF h = 0 /\ l = 0 THEN Zero(1) ELSE AddNorm(a.s, a.e, h, l % (2 ^ 29))

\* a + b for finite non-zero a, b with |a| >= |b|
AddCore(a, b) ==
  AddAligned(a, a.s * b.s, ShiftRightJam(b.hi, b.lo * 8, a.e - b.e))

\* a + b
NAdd(a, b) == Eval("NAdd", <<a, b>>)

\* a - b
NSub(a, b) == Eval("NSub", <<a, b>>)

\* ---- division ----
\* [h, l]: (xh*2^26 + xl) - d * (bh*2^26 + bl), which is not negative
DivLeft(xh, xl, d, bh, bl) ==
  LET l == xl - ((d * bl) % B26)
  IN  [h |-> xh - (d * bh + (d * bl) \div B26) + l \div B26, l |-> l % B26]

\* the digits q and the remainder r = [h, l] once the last digit is right: it
\* was estimated with bh + 1 and may be one too small
DivFix(q, r, bh, bl) ==
  IF r.h > bh \/ (r.h = bh /\ r.l >= bl)
  THEN [q |-> q + 1, rh |-> r.h - bh + (r.l - bl) \div B26, rl |-> (r.l - bl) % B26]
  ELSE [q |-> q, rh |-> r.h, rl |-> r.l]

\* one more base-16 digit of a quotient: from the state st = [q, rh, rl] of
\* the digits q found so far and the remainder rh*2^26 + rl, which is below
\* the divisor bh*2^26 + bl, the state after the next digit
DivDigit(st, bh, bl) == Eval("DivDigit", <<st, bh, bl>>)

\* the next seven digits after the remainder of st: [q, rh, rl] with the seven
\* digits in q
DivDigits(st, bh, bl) == Eval("DivDigits", <<st, bh, bl>>)

\* the quotient rounded: q1 and q2 are its first and its next 28 bits after
\* the leading one, q2 with the remainder that is left
DivRound(s, e, ge, q1, q2) ==
  IF ge
  THEN Pack(s, e - 52, B26 + q1 \div 4, (q1 % 4) * (2 ^ 24) + q2.q \div 16,
            (q2.q \div 8) % 2, q2.q % 8 # 0 \/ q2.rh # 0 \/ q2.rl # 0)
  ELSE Pack(s, e - 53, q1 \div 2, (q1 % 2) * (2 ^ 25) + q2.q \div 8,
            (q2.q \div 4) % 2, q2.q % 4 # 0 \/ q2.rh # 0 \/ q2.rl # 0)

\* the second half of the digits, after the first half d1 = [q, rh, rl]
DivSecond(s, e, ge, d1, b) == DivRound(s, e, ge, d1.q, DivDigits(d1, b.hi, b.lo))

\* |a| / |b| for normalised significands, sign s
DivCore(s, a, b) ==
  LET ge == a.hi > b.hi \/ (a.hi = b.hi /\ a.lo >= b.lo)
  \* the quotient of the significands is 1.f when ge and 0.1f otherwise; 56
  \* bits of f follow from the remainder
  IN  DivSecond(s, a.e - b.e, ge,
                DivDigits(IF ge THEN [rh |-> a.hi - b.hi + (a.lo - b.lo) \div B26,
                                      rl |-> (a.lo - b.lo) % B26]
                          ELSE [rh |-> a.hi, rl |-> a.lo],
                          b.hi, b.lo),
                b)

\* a / b
NDiv(a, b) == Eval("NDiv", <<a, b>>)

\* ---- square root ----
\* one Newton step towards the integer square root of n
RootStep(n, s) == (s + n \div s) \div 2

\* the integer square root of n, 2^26 <= n < 2^28
Root14(n) ==
  LET s1 == RootStep(n, 2 ^ 14)
      s2 == RootStep(n, s1)
      s3 == RootStep(n, s2)
      s4 == RootStep(n, s3)
      s5 == RootStep(n, s4)
  IN  Last(<<s1, s2, s3, s4, s5,
             IF s5 * s5 > n THEN s5 - 1
             ELSE IF (s5 + 1) * (s5 + 1) <= n THEN s5 + 1
             ELSE s5>>)

\* one more base-4 digit of the quotient of a remainder by d: from the state
\* st = [q, r] of the digits so far and the remainder, the state after the
\* next digit
QuotDigit(st, d) == Eval("QuotDigit", <<st, d>>)

\* seven more base-4 digits after the state st
Quot14(st, d) == Eval("Quot14", <<st, d>>)

\* the root rounded: the lower half of the root is the quotient qu.q, or one
\* less when its square sqh*2^28 + sql exceeds the remainder qu.r of the
\* division; whole tells that the quotient did not fit 28 bits
SqrtLast(e, s1, whole, qu, sqh, sql) ==
  LET neg == qu.r < sqh \/ (qu.r = sqh /\ sql > 0)
      rootl == IF whole THEN (2 ^ 28) - 1 ELSE IF neg THEN qu.q - 1 ELSE qu.q
  IN  Pack(1, (e - 52) \div 2, s1 \div 2, (s1 % 2) * (2 ^ 25) + rootl \div 8,
           (rootl \div 4) % 2,
           \/ rootl % 4 # 0
           \/ whole
           \/ neg /\ ~(/\ sql = (2 * qu.q - 1) % (2 ^ 28)
                       /\ sqh - qu.r = 2 * s1 + (2 * qu.q - 1) \div (2 ^ 28))
           \/ ~neg /\ ~(qu.r = sqh /\ sql = 0))

\* the last step of the square root: s1 is the root of the upper half of the
\* significand scaled to 112 bits, r1 what is left of it, and qu the
\* quotient of r1 * 2^28 by twice s1, whose square is taken here
SqrtRound(e, s1, r1, qu) ==
  LET qh == qu.q \div (2 ^ 14)
      ql == qu.q % (2 ^ 14)
      xl == ((2 * qh * ql) % (2 ^ 14)) * (2 ^ 14) + ql * ql
  IN  SqrtLast(e, s1, r1 = 2 * s1, qu,
               qh * qh + (2 * qh * ql) \div (2 ^ 14) + xl \div (2 ^ 28), xl % (2 ^ 28))

\* the middle step: s0 is the root of the upper quarter mh of the
\* significand mh * 2^28 + ml * 4; the root of the upper half follows from a
\* division by twice s0 and a correction by one
SqrtUpper(e, mh, ml, s0) ==
  LET n1 == (mh - s0 * s0) * (2 ^ 14) + ml \div (2 ^ 12)
      q1 == n1 \div (2 * s0)
      t1 == (n1 % (2 * s0)) * (2 ^ 14) + (ml % (2 ^ 12)) * 4 - q1 * q1
      s1 == IF t1 < 0 THEN s0 * (2 ^ 14) + q1 - 1 ELSE s0 * (2 ^ 14) + q1
      r1 == IF t1 < 0 THEN t1 + 2 * (s0 * (2 ^ 14) + q1) - 1 ELSE t1
  IN  SqrtRound(e, s1, r1, Quot14(Quot14([q |-> 0, r |-> r1], 2 * s1), 2 * s1))

\* the square root of a positive number with a normalised significand: the
\* integer square root of the significand scaled to 112 bits (and doubled
\* when the exponent is odd), found from the root of its upper quarter
SqrtCore(a) ==
  LET odd == a.e % 2 # 0
      mh == IF odd THEN a.hi * 2 + a.lo \div (2 ^ 25) ELSE a.hi
  IN  SqrtUpper(IF odd THEN a.e - 1 ELSE a.e, mh,
                IF odd THEN (a.lo % (2 ^ 25)) * 2 ELSE a.lo, Root14(mh))

\* Math.sqrt
NSqrt(a) == Eval("NSqrt", <<a>>)

\* the decimal literal n/d (n, d integers below 2^31) as JavaScript reads it
Lit(n, d) == Eval("Lit", <<n, d>>)

\* the literals 1, 2 and 0.5
ONE == Fin(1, -52, B26, 0)
TWO == Fin(1, -51, B26, 0)
HALF == Fin(1, -53, B26, 0)

\* the high 32 bits of the binary64 encoding of |a|
HighWord(a) == Eval("HighWord", <<a>>)

\* a * 2^n, rounded once
Scale2(a, n) == Eval("Scale2", <<a, n>>)

\* 2^n
Pow2(n) == Eval("Pow2", <<n>>)

\* (int) a: a truncated toward zero, for |a| < 2^31
TruncToInt(a) == Eval("TruncToInt", <<a>>)

\* ------------------------------------------------------------ fdlibm expm1
O_THRESHOLD == Fin(1, -43, 93032639, 49953263)   \* 7.09782712893383973096e+02
LN2_HI == Fin(1, -53, 93032639, 48234496)        \* 6.93147180369123816490e-01
LN2_LO == Fin(1, -85, 110001101, 24722550)       \* 1.90821492927058770002e-10
INVLN2 == Fin(1, -52, 96817625, 19628798)        \* 1.44269504088896338700e+00
Q1 == Fin(-1, -57, 71582788, 17895668)           \* -3.33333333333331316428e-02
Q2 == Fin(1, -62, 109078534, 33445253)           \* 1.58730158725481460165e-03
Q3 == Fin(-1, -66, 87262823, 44751799)           \* -7.93650757867487942473e-05
Q4 == Fin(1, -70, 70513313, 48648761)            \* 4.00821782732936239552e-06
Q5 == Fin(-1, -75, 113208795, 34194221)          \* -2.01099218183624371326e-07

\* the last lines of expm1 for n # 0: e1 is the corrected value e
Expm1Scaled(r, n, e1) ==
  IF n = -1 THEN NSub(NMul(HALF, NSub(r, e1)), HALF)
  ELSE IF n = 1
       THEN (IF NLt(r, Lit(-1, 4)) THEN NMul(FromInt(-2), NSub(e1, NAdd(r, HALF)))
             ELSE NAdd(ONE, NMul(TWO, NSub(r, e1))))
  ELSE IF n <= -2 \/ n > 56
       THEN NSub(Scale2(NSub(ONE, NSub(e1, r)), n), ONE)
  ELSE IF n < 20
       THEN Scale2(NSub(NSub(ONE, Pow2(-n)), NSub(e1, r)), n)
  ELSE Scale2(NAdd(NSub(r, NAdd(e1, Pow2(-n))), ONE), n)

\* the last lines of expm1: e0 is the value e before the correction c
Expm1Tail(r, c, n, hxs, e0) ==
  IF n = 0 THEN NSub(r, NSub(NMul(r, e0), hxs))
  ELSE LET m == NMul(r, NSub(e0, c))
           e1 == NSub(NSub(m, c), hxs)
       IN  Last(<<m, e1, Expm1Scaled(r, n, e1)>>)

\* r1 = 1 + hxs * (Q1 + hxs * (Q2 + hxs * (Q3 + hxs * (Q4 + hxs * Q5))))
Expm1Poly(hxs) == Eval("Expm1Poly", <<hxs>>)

\* e = hxs * ((r1 - t) / (6 - r * t)) with t = 3 - r1 * hfx
Expm1Quot(r, hfx, hxs, r1) == Eval("Expm1Quot", <<r, hfx, hxs, r1>>)

\* the rational approximation of expm1: hfx = 0.5 * r and hxs = r * hfx
Expm1Rational(r, c, n, hfx, hxs) ==
  LET r1 == Expm1Poly(hxs)
      e0 == Expm1Quot(r, hfx, hxs, r1)
  IN  Last(<<r1, e0, Expm1Tail(r, c, n, hxs, e0)>>)

\* expm1 after the argument reduction: r is the reduced argument, c its
\* correction term and n the multiple of ln 2 taken out
Expm1Reduced(r, c, n) == Eval("Expm1Reduced", <<r, c, n>>)

\* the argument as hi - lo after n * ln 2 was taken out: x = hi - lo and
\* c = (hi - x) - lo
Expm1Split(h1, l1, n) == Eval("Expm1Split", <<h1, l1, n>>)

\* expm1(a) = exp(a) - 1
Expm1(a) == Eval("Expm1", <<a>>)

\* tanh of |a| for 2^-28 <= |a| < 22: ix is the high word of |a|
TanhMiddle(a, ix) == Eval("TanhMiddle", <<a, ix>>)

\* Math.tanh
NTanh(a) == Eval("NTanh", <<a>>)

\* ----------------------------------------------------------------- Math.pow
\* 0 when the finite non-zero b is not an integer, 1 when it is an odd
\* integer, 2 when it is an even one
YIsInt(b) == Eval("YIsInt", <<b>>)

\* a with the low 32 bits of its encoding cleared: SET_LOW_WORD(a, 0)
ClearLowWord(a) == Eval("ClearLowWord", <<a>>)

\* the positive normal double whose encoding has the high word h and the
\* low word 0
FromHighWord(h) == Eval("FromHighWord", <<h>>)

\* s2 * s2 * (L1 + s2 * (L2 + s2 * (L3 + s2 * (L4 + s2 * (L5 + s2 * L6)))))
PowLogPoly(s2) == Eval("PowLogPoly", <<s2>>)

\* ss = s_h + s_l = (ax - bp) / (ax + bp): ax is |x| scaled into [1, 2) or
\* [1/2, 1), ix its high word and bp = 1 (k = 0) or 1.5 (k = 1)
PowLogQuotient(ax, ix, k) == Eval("PowLogQuotient", <<ax, ix, k>>)

\* t_h + t_l = 3 + s_h * s_h + r, r the polynomial part of log(ax)
PowLogSeries(ss, s_h, s_l) == Eval("PowLogSeries", <<ss, s_h, s_l>>)

\* p_h + p_l = ss * (t_h + t_l)
PowLogProduct(ss, s_h, s_l, t_h, t_l) == Eval("PowLogProduct", <<ss, s_h, s_l, t_h, t_l>>)

\* log2(ax) = n + dp_h + z_h + z_l as t1 + t2, with cp = 2 / (3 ln 2)
PowLogScale(p_h, p_l, k, n) ==
  LET cp == Fin(1, -53, 129090167, 3802109)    \* 9.61796693925975554329e-01
      cp_h == Fin(1, -53, 129090168, 0)        \* 9.61796700954437255859e-01
      cp_l == Fin(-1, -80, 126613509, 5964277) \* -7.02846165095275826516e-09
      dp_h == IF k = 1 THEN Fin(1, -53, 78512336, 0)   \* 5.84962487220764160156e-01
              ELSE Zero(1)
      dp_l == IF k = 1 THEN Fin(1, -79, 121600720, 63950854)  \* 1.35003920212974897128e-08
              ELSE Zero(1)
      z_h == NMul(cp_h, p_h)
      z_l == NAdd(NAdd(NMul(cp_l, p_h), NMul(p_l, cp)), dp_l)
      t == FromInt(n)
      t1 == ClearLowWord(NAdd(NAdd(NAdd(z_h, z_l), dp_h), t))
  IN  Last(<<z_h, z_l, t1,
             [t1 |-> t1,
              t2 |-> NSub(z_l, NSub(NSub(NSub(t1, t), dp_h), z_h))]>>)

\* log2 of the normalised x > 0 as t1 + t2: j is the top 20 bits of the
\* fraction of x; the significand is taken in [sqrt(3)/2, sqrt(3))
PowLog2(x) == Eval("PowLog2", <<x>>)

\* log2(ax) as t1 + t2 for ax within 2^-20 of 1, by the series of log(1 + t)
PowLog2NearOne(ax) == Eval("PowLog2NearOne", <<ax>>)

\* z - t * (P1 + t * (P2 + t * (P3 + t * (P4 + t * P5)))) with t = z * z
PowExpPoly(z) == Eval("PowExpPoly", <<z>>)

\* 2^(p_h + p_l) * 2^n for |p_h + p_l| <= 1/2; V8 takes the correction
\* w + z*w off the divisor t1 - 2 (base::Divide(z * t1, (t1 - two) -
\* (w + z * w))), where e_pow.c takes it off the quotient
PowExp2(p_h, p_l, n) == Eval("PowExp2", <<p_h, p_l, n>>)

\* 2^z for z = p_l + p_h: for |z| > 1/2 the integer n nearest z is taken
\* out of p_h (i is the high word of |z|)
PowExp2Reduce(z, p_h, p_l) == Eval("PowExp2Reduce", <<z, p_h, p_l>>)

\* 2^(b * (t1 + t2)): Infinity from 1024 on and 0 from -1075 on
PowOfLog2(b, t1, t2) ==
  LET ovt == Fin(1, -106, 96817625, 19628798)    \* 8.0085662595372944372e-17
      y1 == ClearLowWord(b)
      p_l == NAdd(NMul(NSub(b, y1), t1), NMul(b, t2))
      p_h == NMul(y1, t1)
      z == NAdd(p_l, p_h)
  IN  Last(<<y1, p_l, p_h, z,
             IF z.s = 1 /\ NGe(z, FromInt(1024))
             THEN (IF NGt(z, FromInt(1024)) \/ NGt(NAdd(p_l, ovt), NSub(z, p_h))
                   THEN Inf(1) ELSE PowExp2Reduce(z, p_h, p_l))
             ELSE IF NLe(z, FromInt(-1075))
             THEN (IF NLt(z, FromInt(-1075)) \/ NLe(p_l, NSub(z, p_h))
                   THEN Zero(1) ELSE PowExp2Reduce(z, p_h, p_l))
             ELSE PowExp2Reduce(z, p_h, p_l)>>)

\* a^b for a finite a > 0, not 1, and a finite b, not 0: fdlibm's
\* __ieee754_pow after its special cases.  For |b| > 2^31 the result is
\* Infinity or 0 unless a is within 2^-20 of 1
PowPositive(a, b) == Eval("PowPositive", <<a, b>>)

\* Math.pow for the exponents Number::exponentiate of ECMA-262 lists and
\* the ones that need no logarithm
PowOfExponent(a, b) ==
  IF b.k = "fin" /\ IsZero(b) THEN ONE
  ELSE IF a.k = "nan" \/ b.k = "nan" THEN NaN
  ELSE IF b.k = "inf"
       THEN (IF NAbs(a) = ONE THEN NaN
             ELSE IF NGt(NAbs(a), ONE) = (b.s = 1) THEN Inf(1) ELSE Zero(1))
  ELSE IF b = ONE THEN a
  ELSE IF b = NNeg(ONE) THEN NDiv(ONE, a)
  ELSE IF b = TWO THEN NMul(a, a)
  ELSE NSqrt(a)

\* Math.pow for the bases Infinity, 0, 1 and their negatives
PowOfBase(a, b) ==
  LET z == IF b.s = -1 THEN NDiv(ONE, NAbs(a)) ELSE NAbs(a)
  IN  IF a.s = 1 THEN z
      ELSE IF NAbs(a) = ONE /\ YIsInt(b) = 0 THEN NaN
      ELSE IF YIsInt(b) = 1 THEN NNeg(z)
      ELSE z

\* Math.pow: the cases Number::exponentiate of ECMA-262 lists, then the
\* power itself
NPow(a, b) ==
  IF \/ a.k = "nan" \/ b.k # "fin" \/ IsZero(b)
     \/ b = ONE \/ b = NNeg(ONE) \/ b = TWO \/ (b = HALF /\ a.s = 1)
  THEN PowOfExponent(a, b)
  ELSE IF a.k = "inf" \/ IsZero(a) \/ NAbs(a) = ONE THEN PowOfBase(a, b)
  ELSE IF a.s = 1 THEN PowPositive(a, b)
  ELSE IF YIsInt(b) = 0 THEN NaN
  ELSE IF YIsInt(b) = 1 THEN NNeg(PowPositive(NAbs(a), b))
  ELSE PowPositive(NAbs(a), b)

\* ------------------------------------------------- Number.prototype.toFixed
\* bits p .. p + 19 of the integer hi * 2^26 + lo (bits below 0 are zero)
Window(hi, lo, p) == Eval("Window", <<hi, lo, p>>)

\* the whole part of the finite a >= 0
Floor(a) ==
  IF a.e >= 0 THEN a
  ELSE IF a.e <= -53 \/ a.hi < B26 THEN Zero(1)
  ELSE IF a.e <= -26
       THEN Fin(1, a.e, (a.hi \div (2 ^ (-a.e - 26))) * (2 ^ (-a.e - 26)), 0)
  ELSE Fin(1, a.e, a.hi, (a.lo \div (2 ^ (-a.e))) * (2 ^ (-a.e)))

\* the hundredths of the finite a >= 0, rounded half up on the exact value of
\* a: 0 .. 100
Hundredths(a) ==
  IF a.e >= 0 \/ a.e < -60 THEN 0
  ELSE LET t == 60 + a.e
           g0 == Window(a.hi, a.lo, 0 - t)
           g1 == Window(a.hi, a.lo, 20 - t)
           g2 == Window(a.hi, a.lo, 40 - t)
           c0 == g0 * 100
           c1 == g1 * 100 + c0 \div (2 ^ 20)
           c2 == g2 * 100 + c1 \div (2 ^ 20)
       IN  c2 \div (2 ^ 20) + (IF c2 % (2 ^ 20) >= 2 ^ 19 THEN 1 ELSE 0)

\* the string of the sign s, the whole part w and c hundredths; a hundred of
\* them carry into the whole part
FixedString(s, w, c) ==
  [k |-> "str", s |-> s, whole |-> IF c = 100 THEN NAdd(w, ONE) ELSE w,
   cents |-> IF c = 100 THEN 0 ELSE c]

\* a.toFixed(2): the string of a sign, the digits of a whole number, a point
\* and two digits ("NaN", "Infinity" when whole is)
ToFixed2(a) == Eval("ToFixed2", <<a>>)
\* ------------------------------------------------------- static registries

AssetKeys == {"BTC", "ETH", "SOL", "LINK", "DOGE"}

\* ASSETS[key].volatility
ASSETS ==
  [a \in AssetKeys |->
     CASE a = "BTC"  -> Lit(2, 100)
       [] a = "ETH"  -> Lit(25, 1000)
       [] a = "SOL"  -> Lit(35, 1000)
       [] a = "LINK" -> Lit(4, 100)
       [] a = "DOGE" -> Lit(6, 100)]

TimeframeKeys ==
  {"1-hour", "4-hour", "24-hour", "48-hour", "3-day", "7-day", "14-day", "30-day"}

\* TIMEFRAMES[name], in hours
TIMEFRAMES ==
  [t \in TimeframeKeys |->
     CASE t = "1-hour"  -> 1
       [] t = "4-hour"  -> 4
       [] t = "24-hour" -> 24
       [] t = "48-hour" -> 48
       [] t = "3-day"   -> 72
       [] t = "7-day"   -> 168
       [] t = "14-day"  -> 336
       [] t = "30-day"  -> 720]

RANGE_LIMITS == [narrow |-> Lit(1, 100), wide |-> Lit(30, 100)]

TREASURY_SIZE == 20000
MAX_PAYOUT_PERCENTAGE == Lit(10, 100)

\* the single-leg and parlay win cap, the literal 0.25 of the code
WIN_CAP == Lit(25, 100)

\* ------------------------------------------------------- pricing functions

\* the third parameter of the code, price, is not used
CalculateTimeScaledVolatility(assetKey, timeframeHours) == Eval("CalculateTimeScaledVolatility", <<assetKey, timeframeHours>>)

\* Math.PI
PI == Fin(1, -51, 105414357, 4467992)

\* z => 0.5 * (1 + Math.tanh(Math.sqrt(Math.PI / 8) * z))
NormalCDF(z) == Eval("NormalCDF", <<z>>)

CalculateWinProbability(assetKey, lower, upper, timeframeHours, price) == Eval("CalculateWinProbability", <<assetKey, lower, upper, timeframeHours, price>>)

\* houseEdge = 0.07
HOUSE_EDGE == Lit(7, 100)

CalculatePayoutOdds(probability) == Eval("CalculatePayoutOdds", <<probability>>)

\* mutation of IsRangeValid: the narrow limit is not checked
IsRangeValid_NoNarrowLimit(lower, upper, price) ==
  NLe(NDiv(NSub(upper, lower), price), RANGE_LIMITS.wide)

\* mutation of IsRangeValid: the wide limit is not checked
IsRangeValid_NoWideLimit(lower, upper, price) ==
  NGe(NDiv(NSub(upper, lower), price), RANGE_LIMITS.narrow)

IsRangeValid(lower, upper, price) == Eval("IsRangeValid", <<lower, upper, price>>)

\* ------------------------------------------------- parlay-level functions

\* one step of legs.reduce: acc * leg.probability for the leg at position i,
\* acc itself past the last leg
ReduceStep(ls, i, acc) == Eval("ReduceStep", <<ls, i, acc>>)

\* legs.reduce((acc, leg) => acc * leg.probability, 1) from the leg at
\* position i on, acc the product over the legs before it; eight legs at a
\* time
ProductOfProbabilities(ls, i, acc) == Eval("ProductOfProbabilities", <<ls, i, acc>>)

\* mutation of Bonus: legs.length === 2 ? 1.3 : legs.length >= 3 ? 1.5 : 1.0
Bonus_ThreeOrMore(n) ==
  IF n = 2 THEN Lit(13, 10) ELSE IF n >= 3 THEN Lit(15, 10) ELSE Lit(10, 10)

\* legs.length === 2 ? 1.3 : legs.length === 3 ? 1.5 : 1.0
Bonus(n) == IF n = 2 THEN Lit(13, 10) ELSE IF n = 3 THEN Lit(15, 10) ELSE Lit(10, 10)

AVG_CORRELATION_FACTOR == Lit(85, 100)

GetCombinedProb(ls) == Eval("GetCombinedProb", <<ls>>)

\* the string when the combined probability is positive, the number 0
\* otherwise
GetCombinedPayout(ls) == Eval("GetCombinedPayout", <<ls>>)

\* TREASURY_SIZE * MAX_PAYOUT_PERCENTAGE
ExposureLimit == NMul(FromInt(TREASURY_SIZE), MAX_PAYOUT_PERCENTAGE)

\* ------------------------------------------- the objects and the checks

\* the messages of setError
ERR_RANGE == "Range width must be between 1% and 30% of the current asset price."
ERR_EMPTY == "You must add at least one leg to your parlay."
ERR_PROB == "Combined probability exceeds 25% maximum win cap."
ERR_EXPOSURE == "Potential payout exceeds maximum treasury exposure."

\* the leg object of line 108
NewLeg(asset, tf, lower, upper, price) == Eval("NewLeg", <<asset, tf, lower, upper, price>>)

\* mutation of FilterOut: legs.slice(0, index)
FilterOut_Truncate(ls, index) ==
  [i \in 1..(IF index < 0 THEN 0 ELSE IF index > Len(ls) THEN Len(ls) ELSE index) |->
     ls[i]]

\* legs.filter((_, i) => i !== index), index counted from 0
FilterOut(ls, index) ==
  [i \in 1..(IF index >= 0 /\ index < Len(ls) THEN Len(ls) - 1 ELSE Len(ls)) |->
     IF index >= 0 /\ i > index THEN ls[i + 1] ELSE ls[i]]

\* mutation of ExceedsWinCap: the probability cap is not checked
ExceedsWinCap_Never(finalProb) == FALSE

\* finalProb > 0.25
ExceedsWinCap(finalProb) == Eval("ExceedsWinCap", <<finalProb>>)

\* betAmount * calculatePayoutOdds(finalProb)
PotentialPayout(bet, finalProb) == Eval("PotentialPayout", <<bet, finalProb>>)

\* mutation of ExceedsExposure: the exposure cap is not checked
ExceedsExposure_Never(potentialPayout) == FALSE

\* potentialPayout > TREASURY_SIZE * MAX_PAYOUT_PERCENTAGE
ExceedsExposure(potentialPayout) == Eval("ExceedsExposure", <<potentialPayout>>)

\* new Date(ms).toISOString() for an instant of ms milliseconds after the
\* epoch, 0 <= ms < 2^31 (all in January 1970): YYYY-MM-DDTHH:mm:ss.sssZ
ToISOString(ms) ==
  [k |-> "str", year |-> 1970, month |-> 1, day |-> 1 + ms \div 86400000,
   hours |-> (ms \div 3600000) % 24, minutes |-> (ms \div 60000) % 60,
   seconds |-> (ms \div 1000) % 60, milliseconds |-> ms % 1000]

\* the ticket object of lines 149-156: Date.now() reads idClock, new Date()
\* reads stampClock afterwards
NewTicket(ls, bet, idClock, stampClock) == Eval("NewTicket", <<ls, bet, idClock, stampClock>>)

\* mutation of Record: [...history, newTicket]
Record_AtEnd(ticket, hist) == hist \o <<ticket>>

\* mutation of Record: [newTicket]
Record_Overwrite(ticket, hist) == <<ticket>>

\* [newTicket, ...history]
Record(ticket, hist) == <<ticket>> \o hist

\* mutation of Rejection: the empty parlay is not checked first
Rejection_NoEmptyCheck(ls, bet, finalProb) ==
  IF ExceedsWinCap(finalProb) THEN ERR_PROB
  ELSE IF ExceedsExposure(PotentialPayout(bet, finalProb)) THEN ERR_EXPOSURE
  ELSE ""

\* the checks of lines 129-146 on the combined probability finalProb: the
\* reason placeBet rejects with, "" when it accepts
Rejection(ls, bet, finalProb) == Eval("Rejection", <<ls, bet, finalProb>>)

\* the bodies of the operators defined through Eval.  The arguments of an
\* application are evaluated before the body, as JavaScript evaluates the
\* arguments of a call before the call: the first arm does that (every
\* operator has an argument, so it never ends there)
Eval(fn, arg) ==
  CASE arg = <<>> -> arg
    [] fn = "ShiftRightJam" ->
         LET gh == arg[1]
             gl == arg[2]
             d == arg[3]
         IN  (IF d = 0 THEN [h |-> gh, l |-> gl]
              ELSE IF d >= 58 THEN [h |-> 0, l |-> 1]
              ELSE IF d >= 29
                   THEN LET p == 2 ^ (d - 29)
                            l == gh \div p
                        IN  [h |-> 0,
                             l |-> IF (gh % p # 0 \/ gl # 0) /\ l % 2 = 0 THEN l + 1 ELSE l]
              ELSE LET p == 2 ^ d
                       l == gl \div p + (gh % p) * ((2 ^ 29) \div p)
                   IN  [h |-> gh \div p,
                        l |-> IF gl % p # 0 /\ l % 2 = 0 THEN l + 1 ELSE l])
    [] fn = "RoundPack" ->
         LET s == arg[1]
             e == arg[2]
             hi == arg[3]
             lo == arg[4]
             r == arg[5]
             st == arg[6]
         IN  (IF r = 1 /\ (st \/ lo % 2 = 1)
              THEN IF lo + 1 < B26 THEN Fin(s, e, hi, lo + 1)
                   ELSE IF hi + 1 < (2 ^ 27) THEN Fin(s, e, hi + 1, 0)
                   ELSE IF e + 1 > E_MAX THEN Inf(s)
                   ELSE Fin(s, e + 1, B26, 0)
              ELSE IF hi = 0 /\ lo = 0 THEN Zero(s)
              ELSE Fin(s, e, hi, lo))
    [] fn = "Pack" ->
         LET s == arg[1]
             e == arg[2]
             hi == arg[3]
             lo == arg[4]
             r == arg[5]
             st == arg[6]
         IN  (IF e > E_MAX THEN Inf(s)
              ELSE IF e < E_MIN
                   THEN LET g == ShiftRightJam(hi, lo * 8 + r * 4 + (IF st THEN 1 ELSE 0),
                                               E_MIN - e)
                        IN  RoundPack(s, E_MIN, g.h, g.l \div 8, (g.l \div 4) % 2, g.l % 4 # 0)
              ELSE RoundPack(s, e, hi, lo, r, st))
    [] fn = "ShiftLeftIf" ->
         LET n == arg[1]
             k == arg[2]
             w == arg[3]
         IN  (IF n.h >= 2 ^ (27 - k) THEN n
              ELSE [e |-> n.e - k,
                    h |-> n.h * (2 ^ k) + n.l \div (2 ^ (w - k)),
                    l |-> (n.l % (2 ^ (w - k))) * (2 ^ k)])
    [] fn = "NormLeft" ->
         LET e == arg[1]
             h == arg[2]
             l == arg[3]
             w == arg[4]
         IN  (LET n0 == IF h = 0 /\ l < (2 ^ 27)
                        THEN [e |-> e - w, h |-> l, l |-> 0]
                        ELSE IF h = 0
                        THEN [e |-> e - (w - 3), h |-> l \div 8, l |-> (l % 8) * (2 ^ (w - 3))]
                        ELSE [e |-> e, h |-> h, l |-> l]
                  n1 == ShiftLeftIf(n0, 16, w)
                  n2 == ShiftLeftIf(n1, 8, w)
                  n3 == ShiftLeftIf(n2, 4, w)
                  n4 == ShiftLeftIf(n3, 2, w)
              IN  Last(<<n0, n1, n2, n3, n4, ShiftLeftIf(n4, 1, w)>>))
    [] fn = "Norm" ->
         LET a == arg[1]
         IN  (IF a.hi >= B26 THEN a
              ELSE LET n == NormLeft(a.e, a.hi, a.lo, 26) IN Fin(a.s, n.e, n.h, n.l))
    [] fn = "FromInt" ->
         LET i == arg[1]
         IN  (IF i = 0 THEN Zero(1)
              ELSE LET m == IF i < 0 THEN 0 - i ELSE i
                       n == NormLeft(0, m \div B26, m % B26, 26)
                   IN  Fin(IF i < 0 THEN -1 ELSE 1, n.e, n.h, n.l))
    [] fn = "NMul" ->
         LET a == arg[1]
             b == arg[2]
         IN  (IF a.k = "nan" \/ b.k = "nan" THEN NaN
              ELSE IF a.k = "inf" \/ b.k = "inf"
                   THEN (IF IsZero(a) \/ IsZero(b) THEN NaN ELSE Inf(a.s * b.s))
              ELSE IF IsZero(a) \/ IsZero(b) THEN Zero(a.s * b.s)
              ELSE MulCore(a.s * b.s, Norm(a), Norm(b)))
    [] fn = "MagLt" ->
         LET a == arg[1]
             b == arg[2]
         IN  (IF IsZero(b) THEN FALSE
              ELSE IF IsZero(a) THEN TRUE
              ELSE \/ a.e < b.e
                   \/ a.e = b.e /\ (a.hi < b.hi \/ (a.hi = b.hi /\ a.lo < b.lo)))
    [] fn = "NLt" ->
         LET a == arg[1]
             b == arg[2]
         IN  (IF a.k = "nan" \/ b.k = "nan" THEN FALSE
              ELSE IF a.k = "inf" THEN a.s = -1 /\ ~(b.k = "inf" /\ b.s = -1)
              ELSE IF b.k = "inf" THEN b.s = 1
              ELSE IF IsZero(a) /\ IsZero(b) THEN FALSE
              ELSE IF a.s # b.s THEN a.s = -1
              ELSE IF a.s = 1 THEN MagLt(a, b) ELSE MagLt(b, a))
    [] fn = "NGt" ->
         LET a == arg[1]
             b == arg[2]
         IN  (NLt(b, a))
    [] fn = "NLe" ->
         LET a == arg[1]
             b == arg[2]
         IN  (a.k # "nan" /\ b.k # "nan" /\ ~NLt(b, a))
    [] fn = "NGe" ->
         LET a == arg[1]
             b == arg[2]
         IN  (NLe(b, a))
    [] fn = "NMin" ->
         LET a == arg[1]
             b == arg[2]
         IN  (IF a.k = "nan" \/ b.k = "nan" THEN NaN
              ELSE IF NLt(a, b) THEN a
              ELSE IF NLt(b, a) THEN b
              ELSE IF a.s = -1 THEN a ELSE b)
    [] fn = "AddRound" ->
         LET s == arg[1]
             n == arg[2]
             st == arg[3]
         IN  (Pack(s, n.e, n.h, n.l \div 8, (n.l \div 4) % 2, n.l % 4 # 0 \/ st))
    [] fn = "NAdd" ->
         LET a == arg[1]
             b == arg[2]
         IN  (IF a.k = "nan" \/ b.k = "nan" THEN NaN
              ELSE IF a.k = "inf"
                   THEN (IF b.k = "inf" /\ a.s # b.s THEN NaN ELSE a)
              ELSE IF b.k = "inf" THEN b
              ELSE IF IsZero(a) THEN (IF IsZero(b) /\ a.s # b.s THEN Zero(1) ELSE b)
              ELSE IF IsZero(b) THEN a
              ELSE AddCore(IF MagLt(a, b) THEN b ELSE a, IF MagLt(a, b) THEN a ELSE b))
    [] fn = "NSub" ->
         LET a == arg[1]
             b == arg[2]
         IN  (NAdd(a, NNeg(b)))
    [] fn = "DivDigit" ->
         LET st == arg[1]
             bh == arg[2]
             bl == arg[3]
         IN  (DivFix(st.q * 16 + (st.rh * 16) \div (bh + 1),
                     DivLeft(st.rh * 16 + (st.rl * 16) \div B26, (st.rl * 16) % B26,
                             (st.rh * 16) \div (bh + 1), bh, bl),
                     bh, bl))
    [] fn = "DivDigits" ->
         LET st == arg[1]
             bh == arg[2]
             bl == arg[3]
         IN  (LET d1 == DivDigit([q |-> 0, rh |-> st.rh, rl |-> st.rl], bh, bl)
                  d2 == DivDigit(d1, bh, bl)
                  d3 == DivDigit(d2, bh, bl)
                  d4 == DivDigit(d3, bh, bl)
                  d5 == DivDigit(d4, bh, bl)
                  d6 == DivDigit(d5, bh, bl)
              IN  Last(<<d1, d2, d3, d4, d5, d6, DivDigit(d6, bh, bl)>>))
    [] fn = "NDiv" ->
         LET a == arg[1]
             b == arg[2]
         IN  (IF a.k = "nan" \/ b.k = "nan" THEN NaN
              ELSE IF a.k = "inf" THEN (IF b.k = "inf" THEN NaN ELSE Inf(a.s * b.s))
              ELSE IF b.k = "inf" THEN Zero(a.s * b.s)
              ELSE IF IsZero(b) THEN (IF IsZero(a) THEN NaN ELSE Inf(a.s * b.s))
              ELSE IF IsZero(a) THEN Zero(a.s * b.s)
              ELSE DivCore(a.s * b.s, Norm(a), Norm(b)))
    [] fn = "QuotDigit" ->
         LET st == arg[1]
             d == arg[2]
         IN  ([q |-> st.q * 4 + (st.r * 4) \div d, r |-> (st.r * 4) % d])
    [] fn = "Quot14" ->
         LET st == arg[1]
             d == arg[2]
         IN  (LET q1 == QuotDigit(st, d)
                  q2 == QuotDigit(q1, d)
                  q3 == QuotDigit(q2, d)
                  q4 == QuotDigit(q3, d)
                  q5 == QuotDigit(q4, d)
                  q6 == QuotDigit(q5, d)
              IN  Last(<<q1, q2, q3, q4, q5, q6, QuotDigit(q6, d)>>))
    [] fn = "NSqrt" ->
         LET a == arg[1]
         IN  (IF a.k = "nan" THEN NaN
              ELSE IF IsZero(a) THEN a
              ELSE IF a.s = -1 THEN NaN
              ELSE IF a.k = "inf" THEN a
              ELSE SqrtCore(Norm(a)))
    [] fn = "Lit" ->
         LET n == arg[1]
             d == arg[2]
         IN  (NDiv(FromInt(n), FromInt(d)))
    [] fn = "HighWord" ->
         LET a == arg[1]
         IN  (IF a.k = "nan" THEN \H7FF80000
              ELSE IF a.k = "inf" THEN \H7FF00000
              ELSE IF a.hi >= B26 THEN (a.e + 1075) * (2 ^ 20) + (a.hi \div 64) - (2 ^ 20)
              ELSE a.hi \div 64)
    [] fn = "Scale2" ->
         LET a == arg[1]
             n == arg[2]
         IN  (IF a.k # "fin" \/ IsZero(a) THEN a
              ELSE LET m == Norm(a) IN Pack(m.s, m.e + n, m.hi, m.lo, 0, FALSE))
    [] fn = "Pow2" ->
         LET n == arg[1]
         IN  (Scale2(ONE, n))
    [] fn = "TruncToInt" ->
         LET a == arg[1]
         IN  (IF a.e >= 0 THEN a.s * (a.hi * B26 + a.lo) * (2 ^ a.e)
              ELSE IF a.e <= -53 THEN 0
              ELSE IF a.e <= -26 THEN a.s * (a.hi \div (2 ^ (-a.e - 26)))
              ELSE a.s * (a.hi * (2 ^ (26 + a.e)) + a.lo \div (2 ^ (-a.e))))
    [] fn = "Expm1Poly" ->
         LET hxs == arg[1]
         IN  (LET s4 == NAdd(Q4, NMul(hxs, Q5))
                  s3 == NAdd(Q3, NMul(hxs, s4))
                  s2 == NAdd(Q2, NMul(hxs, s3))
                  s1 == NAdd(Q1, NMul(hxs, s2))
              IN  Last(<<s4, s3, s2, s1, NAdd(ONE, NMul(hxs, s1))>>))
    [] fn = "Expm1Quot" ->
         LET r == arg[1]
             hfx == arg[2]
             hxs == arg[3]
             r1 == arg[4]
         IN  (LET t == NSub(FromInt(3), NMul(r1, hfx))
                  d == NSub(FromInt(6), NMul(r, t))
              IN  Last(<<t, d, NMul(hxs, NDiv(NSub(r1, t), d))>>))
    [] fn = "Expm1Reduced" ->
         LET r == arg[1]
             c == arg[2]
             n == arg[3]
         IN  (LET hfx == NMul(HALF, r)
                  hxs == NMul(r, hfx)
              IN  Last(<<hfx, hxs, Expm1Rational(r, c, n, hfx, hxs)>>))
    [] fn = "Expm1Split" ->
         LET h1 == arg[1]
             l1 == arg[2]
             n == arg[3]
         IN  (LET x == NSub(h1, l1)
                  c == NSub(NSub(h1, x), l1)
              IN  Last(<<x, c, Expm1Reduced(x, c, n)>>))
    [] fn = "Expm1" ->
         LET a == arg[1]
         IN  (IF a.k = "nan" THEN NaN
              ELSE IF a.k = "inf" THEN (IF a.s = 1 THEN a ELSE FromInt(-1))
              ELSE LET hx == HighWord(a)
                   IN  IF hx >= \H40862E42 /\ NGt(a, O_THRESHOLD) THEN Inf(1)
                       ELSE IF hx >= \H4043687A /\ a.s = -1 THEN FromInt(-1)
                       ELSE IF hx > \H3FD62E42
                       THEN IF hx < \H3FF0A2B2
                            THEN Expm1Split(IF a.s = 1 THEN NSub(a, LN2_HI) ELSE NAdd(a, LN2_HI),
                                            IF a.s = 1 THEN LN2_LO ELSE NNeg(LN2_LO), a.s)
                            ELSE LET n == TruncToInt(NAdd(NMul(INVLN2, a),
                                                          IF a.s = 1 THEN HALF ELSE NNeg(HALF)))
                                 IN  Expm1Split(NSub(a, NMul(FromInt(n), LN2_HI)),
                                                NMul(FromInt(n), LN2_LO), n)
                       ELSE IF hx < \H3C900000 THEN a
                       ELSE Expm1Reduced(a, Zero(1), 0))
    [] fn = "TanhMiddle" ->
         LET a == arg[1]
             ix == arg[2]
         IN  (LET t == Expm1(NMul(IF ix >= \H3FF00000 THEN TWO ELSE FromInt(-2), NAbs(a)))
                  d == NAdd(t, TWO)
              IN  Last(<<t, d, IF ix >= \H3FF00000 THEN NSub(ONE, NDiv(TWO, d))
                               ELSE NDiv(NNeg(t), d)>>))
    [] fn = "NTanh" ->
         LET a == arg[1]
         IN  (IF a.k = "nan" THEN NaN
              ELSE IF a.k = "inf" THEN FromInt(a.s)
              ELSE LET ix == HighWord(a)
                   IN  IF ix < \H3E300000 THEN a
                       ELSE LET z == IF ix >= \H40360000 THEN ONE ELSE TanhMiddle(a, ix)
                            IN  IF a.s = 1 THEN z ELSE NNeg(z))
    [] fn = "YIsInt" ->
         LET b == arg[1]
         IN  (IF b.e >= 1 THEN 2
              ELSE IF b.e = 0 THEN 2 - (b.lo % 2)
              ELSE IF b.e < -52 \/ b.hi < B26 THEN 0
              ELSE IF b.e > -26
                   THEN (IF b.lo % (2 ^ (-b.e)) # 0 THEN 0
                         ELSE 2 - ((b.lo \div (2 ^ (-b.e))) % 2))
              ELSE IF b.lo # 0 \/ b.hi % (2 ^ (-b.e - 26)) # 0 THEN 0
              ELSE 2 - ((b.hi \div (2 ^ (-b.e - 26))) % 2))
    [] fn = "ClearLowWord" ->
         LET a == arg[1]
         IN  (IF a.k # "fin" THEN a
              ELSE IF a.hi \div 64 = 0 THEN Zero(a.s)
              ELSE Fin(a.s, a.e, (a.hi \div 64) * 64, 0))
    [] fn = "FromHighWord" ->
         LET h == arg[1]
         IN  (Fin(1, (h \div (2 ^ 20)) - 1075, ((h % (2 ^ 20)) + (2 ^ 20)) * 64, 0))
    [] fn = "PowLogPoly" ->
         LET s2 == arg[1]
         IN  (LET L1 == Fin(1, -53, 80530636, 53687043)    \* 5.99999999999994648725e-01
                  L2 == Fin(1, -54, 115043766, 57650175)   \* 4.28571428578550184252e-01
                  L3 == Fin(1, -54, 89478484, 26158669)    \* 3.33333329818377432918e-01
                  L4 == Fin(1, -54, 73209898, 18694401)    \* 2.72728123808534006489e-01
                  L5 == Fin(1, -55, 123835044, 63560549)   \* 2.30660745775561754067e-01
                  L6 == Fin(1, -55, 111118866, 38096623)   \* 2.06975017800338417784e-01
                  a5 == NAdd(L5, NMul(s2, L6))
                  a4 == NAdd(L4, NMul(s2, a5))
                  a3 == NAdd(L3, NMul(s2, a4))
                  a2 == NAdd(L2, NMul(s2, a3))
                  a1 == NAdd(L1, NMul(s2, a2))
              IN  Last(<<a5, a4, a3, a2, a1, NMul(NMul(s2, s2), a1)>>))
    [] fn = "PowLogQuotient" ->
         LET ax == arg[1]
             ix == arg[2]
             k == arg[3]
         IN  (LET bp == IF k = 1 THEN Lit(3, 2) ELSE ONE
                  u == NSub(ax, bp)
                  v == NDiv(ONE, NAdd(ax, bp))
                  ss == NMul(u, v)
                  s_h == ClearLowWord(ss)
                  t_h == FromHighWord((ix \div 2) + \H20000000 + \H00080000 + k * (2 ^ 18))
                  t_l == NSub(ax, NSub(t_h, bp))
                  d == NSub(NSub(u, NMul(s_h, t_h)), NMul(s_h, t_l))
              IN  Last(<<u, v, ss, s_h, t_h, t_l, d,
                         [ss |-> ss, s_h |-> s_h, s_l |-> NMul(v, d)]>>))
    [] fn = "PowLogSeries" ->
         LET ss == arg[1]
             s_h == arg[2]
             s_l == arg[3]
         IN  (LET r0 == PowLogPoly(NMul(ss, ss))
                  r == NAdd(r0, NMul(s_l, NAdd(s_h, ss)))
                  s2 == NMul(s_h, s_h)
                  t_h == ClearLowWord(NAdd(NAdd(FromInt(3), s2), r))
              IN  Last(<<r0, r, s2, t_h,
                         [t_h |-> t_h, t_l |-> NSub(r, NSub(NSub(t_h, FromInt(3)), s2))]>>))
    [] fn = "PowLogProduct" ->
         LET ss == arg[1]
             s_h == arg[2]
             s_l == arg[3]
             t_h == arg[4]
             t_l == arg[5]
         IN  (LET u == NMul(s_h, t_h)
                  v == NAdd(NMul(s_l, t_h), NMul(t_l, ss))
                  p_h == ClearLowWord(NAdd(u, v))
              IN  Last(<<u, v, p_h, [p_h |-> p_h, p_l |-> NSub(v, NSub(p_h, u))]>>))
    [] fn = "PowLog2" ->
         LET x == arg[1]
         IN  (LET j == (x.hi - B26) \div 64
                  k == IF j <= \H3988E THEN 0 ELSE IF j < \HBB67A THEN 1 ELSE 0
                  up == IF j >= \HBB67A THEN 1 ELSE 0
                  q == PowLogQuotient(Fin(1, -52 - up, x.hi, x.lo),
                                      \H3FF00000 + j - up * (2 ^ 20), k)
                  t == PowLogSeries(q.ss, q.s_h, q.s_l)
                  p == PowLogProduct(q.ss, q.s_h, q.s_l, t.t_h, t.t_l)
              IN  Last(<<q, t, p, PowLogScale(p.p_h, p.p_l, k, x.e + 52 + up)>>))
    [] fn = "PowLog2NearOne" ->
         LET ax == arg[1]
         IN  (LET ivln2_h == Fin(1, -52, 96817624, 0)         \* 1.44269502162933349609e+00
                  ivln2_l == Fin(1, -78, 86737662, 6152004)   \* 1.92596299112661746887e-08
                  t == NSub(ax, ONE)
                  w == NMul(NMul(t, t),
                            NSub(HALF, NMul(t, NSub(Lit(1, 3), NMul(t, Lit(1, 4))))))
                  u == NMul(ivln2_h, t)
                  v == NSub(NMul(t, ivln2_l), NMul(w, INVLN2))
                  t1 == ClearLowWord(NAdd(u, v))
              IN  Last(<<t, w, u, v, t1, [t1 |-> t1, t2 |-> NSub(v, NSub(t1, u))]>>))
    [] fn = "PowExpPoly" ->
         LET z == arg[1]
         IN  (LET P1 == Fin(1, -55, 89478485, 22369598)    \* 1.66666666666666019037e-01
                  P2 == Fin(-1, -61, 95443717, 46054803)   \* -2.77777777770155933842e-03
                  P3 == Fin(1, -66, 72719019, 52813356)    \* 6.61375632143793436117e-05
                  P4 == Fin(-1, -72, 116346993, 30567409)  \* -1.65339022054652515390e-06
                  P5 == Fin(1, -77, 93182556, 46048464)    \* 4.13813679705723846039e-08
                  t == NMul(z, z)
                  a4 == NAdd(P4, NMul(t, P5))
                  a3 == NAdd(P3, NMul(t, a4))
                  a2 == NAdd(P2, NMul(t, a3))
                  a1 == NAdd(P1, NMul(t, a2))
              IN  Last(<<t, a4, a3, a2, a1, NSub(z, NMul(t, a1))>>))
    [] fn = "PowExp2" ->
         LET p_h == arg[1]
             p_l == arg[2]
             n == arg[3]
         IN  (LET lg2 == Fin(1, -53, 93032639, 49953263)     \* 6.93147180559945286227e-01
                  lg2_h == Fin(1, -53, 93032640, 0)          \* 6.93147182464599609375e-01
                  lg2_l == Fin(-1, -81, 68622403, 11037753)  \* -1.90465429995776804525e-09
                  t == ClearLowWord(NAdd(p_l, p_h))
                  u == NMul(t, lg2_h)
                  v == NAdd(NMul(NSub(p_l, NSub(t, p_h)), lg2), NMul(t, lg2_l))
                  z == NAdd(u, v)
                  w == NSub(v, NSub(z, u))
                  t1 == PowExpPoly(z)
                  r == NDiv(NMul(z, t1), NSub(NSub(t1, TWO), NAdd(w, NMul(z, w))))
              IN  Last(<<t, u, v, z, w, t1, r, Scale2(NSub(ONE, NSub(r, z)), n)>>))
    [] fn = "PowExp2Reduce" ->
         LET z == arg[1]
             p_h == arg[2]
             p_l == arg[3]
         IN  (LET i == HighWord(z)
                  m == i + ((2 ^ 20) \div (2 ^ ((i \div (2 ^ 20)) - 1022)))
                  k == (m \div (2 ^ 20)) - 1023
                  t == FromHighWord(m - (m % (2 ^ (20 - k))))
                  n == ((m % (2 ^ 20)) + (2 ^ 20)) \div (2 ^ (20 - k))
              IN  IF i <= \H3FE00000 THEN PowExp2(p_h, p_l, 0)
                  ELSE IF z.s = 1 THEN PowExp2(NSub(p_h, t), p_l, n)
                  ELSE PowExp2(NAdd(p_h, t), p_l, 0 - n))
    [] fn = "PowPositive" ->
         LET a == arg[1]
             b == arg[2]
         IN  (LET ix == HighWord(a)
                  iy == HighWord(b)
                  lg == IF iy > \H41E00000 THEN PowLog2NearOne(a) ELSE PowLog2(Norm(a))
              IN  IF iy > \H43F00000 \/ (iy > \H41E00000 /\ (ix < \H3FEFFFFF \/ ix > \H3FF00000))
                  THEN (IF (ix >= \H3FF00000) = (b.s = 1) THEN Inf(1) ELSE Zero(1))
                  ELSE Last(<<lg, PowOfLog2(b, lg.t1, lg.t2)>>))
    [] fn = "Window" ->
         LET hi == arg[1]
             lo == arg[2]
             p == arg[3]
         IN  (IF p >= 53 \/ p <= -20 THEN 0
              ELSE IF p >= 26 THEN (hi \div (2 ^ (p - 26))) % (2 ^ 20)
              ELSE IF p >= 6 THEN lo \div (2 ^ p) + (hi % (2 ^ (p - 6))) * (2 ^ (26 - p))
              ELSE IF p >= 0 THEN (lo \div (2 ^ p)) % (2 ^ 20)
              ELSE (lo % (2 ^ (20 + p))) * (2 ^ (-p)))
    [] fn = "NormalCDF" ->
         LET z == arg[1]
         IN  (LET k == NSqrt(NDiv(PI, FromInt(8)))
                  th == NTanh(NMul(k, z))
              IN  Last(<<k, th, NMul(HALF, NAdd(ONE, th))>>))
    [] fn = "CalculatePayoutOdds" ->
         LET probability == arg[1]
         IN  (NMul(NDiv(ONE, probability), NSub(ONE, HOUSE_EDGE)))
    [] fn = "ReduceStep" ->
         LET ls == arg[1]
             i == arg[2]
             acc == arg[3]
         IN  (IF i > Len(ls) THEN acc ELSE NMul(acc, ls[i].probability))
    [] fn = "ProductOfProbabilities" ->
         LET ls == arg[1]
             i == arg[2]
             acc == arg[3]
         IN  (IF i > Len(ls) THEN acc
              ELSE LET a1 == ReduceStep(ls, i, acc)
                       a2 == ReduceStep(ls, i + 1, a1)
                       a3 == ReduceStep(ls, i + 2, a2)
                       a4 == ReduceStep(ls, i + 3, a3)
                       a5 == ReduceStep(ls, i + 4, a4)
                       a6 == ReduceStep(ls, i + 5, a5)
                       a7 == ReduceStep(ls, i + 6, a6)
                       a8 == ReduceStep(ls, i + 7, a7)
                   IN  ProductOfProbabilities(ls, i + 8,
                                              Last(<<a1, a2, a3, a4, a5, a6, a7, a8>>)))
    [] fn = "ExceedsWinCap" ->
         LET finalProb == arg[1]
         IN  (NGt(finalProb, WIN_CAP))
    [] fn = "PotentialPayout" ->
         LET bet == arg[1]
             finalProb == arg[2]
         IN  (NMul(bet, CalculatePayoutOdds(finalProb)))
    [] fn = "ExceedsExposure" ->
         LET potentialPayout == arg[1]
         IN  (NGt(potentialPayout, ExposureLimit))
    [] fn = "CalculateTimeScaledVolatility" ->
         LET assetKey == arg[1]
             timeframeHours == arg[2]
         IN  (LET vol == ASSETS[assetKey]
                  multiplier == IF timeframeHours <= 1 THEN Lit(13, 10)
                                ELSE IF timeframeHours <= 4 THEN Lit(12, 10)
                                ELSE IF timeframeHours <= 24 THEN Lit(11, 10)
                                ELSE Lit(10, 10)
                  timeAdjustment == NSqrt(NDiv(FromInt(timeframeHours), FromInt(24)))
              IN  Last(<<timeAdjustment, NMul(NMul(vol, timeAdjustment), multiplier)>>))
    [] fn = "CalculateWinProbability" ->
         LET assetKey == arg[1]
             lower == arg[2]
             upper == arg[3]
             timeframeHours == arg[4]
             price == arg[5]
         IN  (LET adjustedVol == CalculateTimeScaledVolatility(assetKey, timeframeHours)
                  stdDev == NMul(price, adjustedVol)
                  z1 == NDiv(NSub(lower, price), stdDev)
                  z2 == NDiv(NSub(upper, price), stdDev)
                  c2 == NormalCDF(z2)
                  c1 == NormalCDF(z1)
              IN  Last(<<adjustedVol, stdDev, z1, z2, c2, c1, NMin(NSub(c2, c1), WIN_CAP)>>))
    [] fn = "IsRangeValid" ->
         LET lower == arg[1]
             upper == arg[2]
             price == arg[3]
         IN  (LET width == NDiv(NSub(upper, lower), price)
              IN  NGe(width, RANGE_LIMITS.narrow) /\ NLe(width, RANGE_LIMITS.wide))
    [] fn = "GetCombinedProb" ->
         LET ls == arg[1]
         IN  (IF Len(ls) = 0 THEN Zero(1)
              ELSE LET base == ProductOfProbabilities(ls, 1, ONE)
                       root == NPow(base, NDiv(ONE, FromInt(Len(ls))))
                   IN  Last(<<base, root,
                              NMul(NMul(root, AVG_CORRELATION_FACTOR), Bonus(Len(ls)))>>))
    [] fn = "GetCombinedPayout" ->
         LET ls == arg[1]
         IN  (LET combinedProb == GetCombinedProb(ls)
                  odds == CalculatePayoutOdds(NMin(combinedProb, WIN_CAP))
              IN  IF NGt(combinedProb, Zero(1)) THEN Last(<<odds, ToFixed2(odds)>>)
                  ELSE Zero(1))
    [] fn = "NewLeg" ->
         LET asset == arg[1]
             tf == arg[2]
             lower == arg[3]
             upper == arg[4]
             price == arg[5]
         IN  (LET probability ==
                    CalculateWinProbability(asset, lower, upper, TIMEFRAMES[tf], price)
              IN  [asset |-> asset, timeframe |-> tf, lowerBound |-> lower,
                   upperBound |-> upper, probability |-> probability,
                   payoutOdds |-> CalculatePayoutOdds(probability)])
    [] fn = "NewTicket" ->
         LET ls == arg[1]
             bet == arg[2]
             idClock == arg[3]
             stampClock == arg[4]
         IN  ([id |-> idClock, legs |-> ls, betAmount |-> bet,
               timestamp |-> ToISOString(stampClock), result |-> "pending",
               combinedPayout |-> GetCombinedPayout(ls)])
    [] fn = "Rejection" ->
         LET ls == arg[1]
             bet == arg[2]
             finalProb == arg[3]
         IN  (IF Len(ls) = 0 THEN ERR_EMPTY
              ELSE IF ExceedsWinCap(finalProb) THEN ERR_PROB
              ELSE IF ExceedsExposure(PotentialPayout(bet, finalProb)) THEN ERR_EXPOSURE
              ELSE "")
    [] fn = "ToFixed2" ->
         LET a == arg[1]
         IN  (IF a.k # "fin" THEN [k |-> "str", s |-> a.s, whole |-> NAbs(a), cents |-> 0]
              ELSE FixedString(IF IsZero(a) THEN 1 ELSE a.s, Floor(NAbs(a)), Hundredths(a)))

\* ------------------------------------------------------------ model bounds

\* addLeg is not taken on a parlay of MaxLegs legs
MaxLegs == 2
\* placeBet is not taken on a ledger of MaxHistory tickets
MaxHistory == 2
\* a new asset is not selected while MaxInFlight price requests are in flight
MaxInFlight == 2
\* the clock Date.now() reads stops at MaxClock milliseconds
MaxClock == 1
\* the longest parlay of any legs the parlay-level functions are applied to
MaxParlay == 4
\* the longest parlay of one repeated leg they are applied to
MaxCopies == 103

\* ---------------------------------------------------- the component's state

VARIABLES
  legs,           \* useState([]): the in-progress parlay, a sequence of legs
  selectedAsset,  \* useState("BTC")
  timeframe,      \* useState("24-hour")
  lowerBound,     \* useState(0)
  upperBound,     \* useState(0)
  betAmount,      \* useState(100)
  history,        \* useState([]): the ledger, most recent ticket first
  error,          \* useState("")
  livePrice,      \* useState(0)
  inflight,       \* per asset, the fetchPrice calls that have not settled yet
  priceAsset,     \* the asset whose request delivered livePrice, "none" for 0
  now             \* the clock read by Date.now() and new Date(), milliseconds

vars == <<legs, selectedAsset, timeframe, lowerBound, upperBound, betAmount,
          history, error, livePrice, inflight, priceAsset, now>>

RECURSIVE SumInFlight(_, _)
SumInFlight(f, S) ==
  IF S = {} THEN 0
  ELSE LET a == CHOOSE x \in S : TRUE
       IN  f[a] + SumInFlight(f, S \ {a})

\* the state after the first render and its effect: fetchPrice() for BTC is
\* in flight
Init ==
  /\ legs = <<>>
  /\ selectedAsset = "BTC"
  /\ timeframe = "24-hour"
  /\ lowerBound = Zero(1)
  /\ upperBound = Zero(1)
  /\ betAmount = FromInt(100)
  /\ history = <<>>
  /\ error = ""
  /\ livePrice = Zero(1)
  /\ inflight = [a \in AssetKeys |-> IF a = "BTC" THEN 1 ELSE 0]
  /\ priceAsset = "none"
  /\ now = 0

\* ---------------------------------------------------------------- handlers

\* onChange of the asset select, and the effect it triggers (lines 79-91):
\* fetchPrice() for the new asset starts
SelectAsset(a) ==
  /\ UNCHANGED <<legs, timeframe, lowerBound, upperBound, betAmount, history,
                 error, livePrice, priceAsset, now>>
  /\ a # selectedAsset
  /\ SumInFlight(inflight, AssetKeys) < MaxInFlight
  /\ selectedAsset' = a
  /\ inflight' = [inflight EXCEPT ![a] = @ + 1]

\* a fetchPrice() call for asset a resolves with the price p
FetchSucceed(a, p) ==
  /\ UNCHANGED <<legs, selectedAsset, timeframe, lowerBound, upperBound,
                 betAmount, history, error, now>>
  /\ inflight[a] > 0
  /\ inflight' = [inflight EXCEPT ![a] = @ - 1]
  /\ livePrice' = p
  /\ priceAsset' = a

\* a fetchPrice() call for asset a throws: catch sets the price to 0
FetchFail(a) ==
  /\ UNCHANGED <<legs, selectedAsset, timeframe, lowerBound, upperBound,
                 betAmount, history, error, now>>
  /\ inflight[a] > 0
  /\ inflight' = [inflight EXCEPT ![a] = @ - 1]
  /\ livePrice' = Zero(1)
  /\ priceAsset' = "none"

SetTimeframe(tf) ==
  /\ UNCHANGED <<legs, selectedAsset, lowerBound, upperBound, betAmount,
                 history, error, livePrice, inflight, priceAsset, now>>
  /\ timeframe' = tf

\* v is parseFloat(e.target.value): a finite number or NaN
SetLowerBound(v) ==
  /\ UNCHANGED <<legs, selectedAsset, timeframe, upperBound, betAmount,
                 history, error, livePrice, inflight, priceAsset, now>>
  /\ lowerBound' = v

SetUpperBound(v) ==
  /\ UNCHANGED <<legs, selectedAsset, timeframe, lowerBound, betAmount,
                 history, error, livePrice, inflight, priceAsset, now>>
  /\ upperBound' = v

SetBetAmount(v) ==
  /\ UNCHANGED <<legs, selectedAsset, timeframe, lowerBound, upperBound,
                 history, error, livePrice, inflight, priceAsset, now>>
  /\ betAmount' = v

AddLeg ==
  /\ UNCHANGED <<selectedAsset, timeframe, lowerBound, upperBound, betAmount,
                 history, livePrice, inflight, priceAsset, now>>
  /\ Len(legs) < MaxLegs
  /\ IF ~IsRangeValid(lowerBound, upperBound, livePrice)
     THEN /\ error' = ERR_RANGE
          /\ UNCHANGED legs
     ELSE /\ error' = ""
          /\ legs' = Append(legs, NewLeg(selectedAsset, timeframe, lowerBound,
                                         upperBound, livePrice))

RemoveLeg(index) ==
  /\ UNCHANGED <<selectedAsset, timeframe, lowerBound, upperBound, betAmount,
                 history, error, livePrice, inflight, priceAsset, now>>
  /\ legs' = FilterOut(legs, index)

\* placeBet; when it accepts, the clock advances by elapsed milliseconds
\* between Date.now() of line 150 and new Date() of line 153
PlaceBet(elapsed) ==
  /\ UNCHANGED <<selectedAsset, timeframe, lowerBound, upperBound, betAmount,
                 livePrice, inflight, priceAsset>>
  /\ Len(history) < MaxHistory
  /\ now + elapsed <= MaxClock
  /\ \E reason \in {Rejection(legs, betAmount, GetCombinedProb(legs))} :
       IF reason # ""
       THEN /\ error' = reason
            /\ UNCHANGED <<legs, history, now>>
       ELSE /\ error' = ""
            /\ history' = Record(NewTicket(legs, betAmount, now, now + elapsed),
                                 history)
            /\ legs' = <<>>
            /\ now' = now + elapsed

\* useMemo(() => getCombinedProb(), [legs])
LiveCombinedProbability == GetCombinedProb(legs)

\* useMemo(() => betAmount * calculatePayoutOdds(Math.min(prob, 0.25)),
\*         [legs, betAmount])
LivePotentialPayout ==
  NMul(betAmount, CalculatePayoutOdds(NMin(GetCombinedProb(legs), WIN_CAP)))

\* time passes between two events
Tick ==
  /\ UNCHANGED <<legs, selectedAsset, timeframe, lowerBound, upperBound,
                 betAmount, history, error, livePrice, inflight, priceAsset>>
  /\ now < MaxClock
  /\ now' = now + 1

\* every value of the clock advance of one placeBet
PlaceBetStep == \E elapsed \in 0..MaxClock : PlaceBet(elapsed)

\* ------------------------------------------------------------------ inputs

\* what the price feed answers for an asset (the same quote for each asset)
Quote == FromInt(100)

\* bound inputs: a 2% range around the quote, a 1% range below it and a 25%
\* range far above it
NearLower == FromInt(99)
NearUpper == FromInt(101)
AtQuote == FromInt(100)
FarLower == FromInt(320)
FarUpper == FromInt(345)
\* bound inputs for ranges at the wide limit: 99 .. 129 is 30% of the quote,
\* 99.3 .. 129.3 is 30% in decimals and 30.000000000000014% in doubles
WideUpper == FromInt(129)
OffLower == Lit(993, 10)
OffUpper == Lit(1293, 10)

\* stakes at the exposure limit of a single leg of probability 0.25 (odds
\* 4.376470588235294): 456.98 pays 1999.96, 456.99 pays 2000.003
StakeBelowLimit == Lit(45698, 100)
StakeAboveLimit == Lit(45699, 100)

\* the leg-building flow: two assets, two timeframes, a near and a far range;
\* no bet is placed
NextLegs ==
  \/ \E a \in {"BTC", "DOGE"} : SelectAsset(a)
  \/ \E a \in AssetKeys : FetchSucceed(a, Quote)
  \/ \E a \in AssetKeys : FetchFail(a)
  \/ \E tf \in {"1-hour", "24-hour"} : SetTimeframe(tf)
  \/ \E v \in {NearLower, FarLower} : SetLowerBound(v)
  \/ \E v \in {NearUpper, FarUpper} : SetUpperBound(v)
  \/ AddLeg
  \/ \E i \in 0..MaxLegs : RemoveLeg(i)

SpecLegs == Init /\ [][NextLegs]_vars

\* the betting flow on the initial asset and timeframe: two ranges, the
\* initial stake and a stake just above the exposure limit of one leg
NextBet ==
  \/ \E a \in AssetKeys : FetchSucceed(a, Quote)
  \/ SetLowerBound(NearLower)
  \/ \E v \in {NearUpper, AtQuote} : SetUpperBound(v)
  \/ \E v \in {FromInt(100), StakeAboveLimit} : SetBetAmount(v)
  \/ AddLeg
  \/ \E i \in 0..MaxLegs : RemoveLeg(i)
  \/ PlaceBet(0)

SpecBet == Init /\ [][NextBet]_vars

\* the betting flow on one range with every kind of value the bet amount
\* input can hold: a positive, a zero and a negative number and the empty
\* field, and the stake just below the exposure limit of one leg
NextStake ==
  \/ \E a \in AssetKeys : FetchSucceed(a, Quote)
  \/ SetLowerBound(NearLower)
  \/ SetUpperBound(NearUpper)
  \/ \E v \in {StakeBelowLimit, StakeAboveLimit, FromInt(0), FromInt(-50), NaN} :
       SetBetAmount(v)
  \/ AddLeg
  \/ PlaceBet(0)

SpecStake == Init /\ [][NextStake]_vars

\* the betting flow at the initial stake, with bounds that make ranges of
\* negative width, below, at and inside the narrow limit, and at and above
\* the wide limit
NextRange ==
  \/ \E a \in AssetKeys : FetchSucceed(a, Quote)
  \/ \E a \in AssetKeys : FetchFail(a)
  \/ \E v \in {NearLower, OffLower} : SetLowerBound(v)
  \/ \E v \in {AtQuote, WideUpper, OffUpper} : SetUpperBound(v)
  \/ AddLeg
  \/ PlaceBet(0)

SpecRange == Init /\ [][NextRange]_vars

\* the legs addLeg builds at the quote from the near and the narrow range on
\* BTC and from the near range on DOGE, all on the 24-hour timeframe
CandidateLegs ==
  {NewLeg("BTC", "24-hour", NearLower, NearUpper, Quote),
   NewLeg("BTC", "24-hour", NearLower, AtQuote, Quote),
   NewLeg("DOGE", "24-hour", NearLower, NearUpper, Quote)}

\* the legs addLeg is made to build again and again: the candidate legs and
\* the leg of the range 130 .. 160 on BTC, of probability 3.78e-8
RepeatedLegs ==
  CandidateLegs \cup
    {NewLeg("BTC", "24-hour", FromInt(130), FromInt(160), Quote)}

\* the parlay-level functions on every parlay of up to MaxParlay candidate
\* legs and on every parlay of up to MaxCopies copies of one leg: the state
\* after the price has arrived and the legs have been added
InitParlay ==
  /\ legs \in UNION {[1..n -> CandidateLegs] : n \in 0..MaxParlay}
              \cup {[i \in 1..n |-> l] : l \in RepeatedLegs, n \in 0..MaxCopies}
  /\ selectedAsset = "BTC"
  /\ timeframe = "24-hour"
  /\ lowerBound = NearLower
  /\ upperBound = NearUpper
  /\ betAmount = FromInt(100)
  /\ history = <<>>
  /\ error = ""
  /\ livePrice = Quote
  /\ inflight = [a \in AssetKeys |-> 0]
  /\ priceAsset = "BTC"
  /\ now = 0

NextParlay ==
  \/ \E v \in {FromInt(100), StakeAboveLimit} : SetBetAmount(v)
  \/ \E i \in -1..MaxParlay : RemoveLeg(i)
  \/ PlaceBet(0)

SpecParlay == InitParlay /\ [][NextParlay]_vars

\* the betting flow on one range, with the clock: time may or may not pass
\* between two clicks and between the two clock readings of one placeBet
NextClock ==
  \/ \E a \in AssetKeys : FetchSucceed(a, Quote)
  \/ SetLowerBound(NearLower)
  \/ \E v \in {NearUpper, AtQuote} : SetUpperBound(v)
  \/ AddLeg
  \/ PlaceBetStep
  \/ Tick

SpecClock == Init /\ [][NextClock]_vars

\* every handler, with the inputs of all flows
Next ==
  \/ NextLegs
  \/ NextBet
  \/ NextStake
  \/ NextRange
  \/ NextParlay
  \/ NextClock

Spec == Init /\ [][Next]_vars

\* ------------------------------------------------------------------ claims

Tickets == {history[i] : i \in 1..Len(history)}

\* stake * odds of a ticket, from the ticket's own legs and stake
TicketPayout(t) == PotentialPayout(t.betAmount, GetCombinedProb(t.legs))

\* the three conditions under which placeBet is to reject
RejectCase ==
  \/ Len(legs) = 0
  \/ NGt(GetCombinedProb(legs), WIN_CAP)
  \/ NGt(PotentialPayout(betAmount, GetCombinedProb(legs)), ExposureLimit)

\* C1: every ticket in the ledger has stake * combined odds <= treasury size
\* * max payout fraction (2000 dollars), whatever the bet amount input held.
C1_PayoutWithinExposure ==
  \A t \in Tickets : NLe(TicketPayout(t), ExposureLimit)

\* C2: a step from a parlay whose combined probability exceeds 0.25 records
\* no ticket, and placeBet there sets the probability-cap reason; every ticket
\* that enters the ledger has a combined probability of at most 0.25.
C2_ProbabilityCap ==
  [][/\ history' # history =>
          /\ ~NGt(GetCombinedProb(legs), WIN_CAP)
          /\ NLe(GetCombinedProb(Head(history').legs), WIN_CAP)
     /\ PlaceBetStep => (NGt(GetCombinedProb(legs), WIN_CAP) => error' = ERR_PROB)]_vars

\* C2 witness: placeBet has rejected a two-leg parlay for its probability
\* while a ticket is on the ledger
C2_Witness ==
  /\ error = ERR_PROB
  /\ Len(legs) = 2
  /\ NGt(GetCombinedProb(legs), WIN_CAP)
  /\ Len(history) >= 1

\* C3: every leg appended to the parlay is priced against a price that was
\* fetched for the leg's own asset.
C3_LegPricedForOwnAsset ==
  [][Len(legs') > Len(legs) => priceAsset = legs'[Len(legs')].asset]_vars

\* C4: with a live price of 0, addLeg leaves the parlay unchanged and reports
\* the range error, for every pair of bounds.
C4_ZeroPriceRefused ==
  [][(livePrice = Zero(1) /\ AddLeg) => (legs' = legs /\ error' = ERR_RANGE)]_vars

\* C4 witness: addLeg has refused bounds with upper > lower at a zero price
C4_Witness ==
  /\ livePrice = Zero(1)
  /\ error = ERR_RANGE
  /\ NGt(upperBound, lowerBound)
  /\ legs = <<>>

\* C5: every ticket in the ledger has a positive stake.
C5_PositiveStake ==
  \A t \in Tickets : NGt(t.betAmount, Zero(1))

\* C6: a placeBet that is rejected (empty parlay, probability cap or exposure
\* cap exceeded) changes nothing but the error, which it sets to a non-empty
\* reason.
C6_RejectionChangesOnlyError ==
  [][(PlaceBetStep /\ RejectCase) =>
       /\ error' # ""
       /\ UNCHANGED <<legs, history, selectedAsset, timeframe, lowerBound, upperBound,
                      betAmount, livePrice, inflight, priceAsset, now>>]_vars

\* C6 witness: placeBet has rejected a non-empty parlay for its exposure
\* while a ticket is on the ledger
C6_Witness ==
  /\ error = ERR_EXPOSURE
  /\ Len(legs) >= 1
  /\ Len(history) >= 1

\* C7: placeBet on an empty parlay sets the empty-parlay reason and records
\* nothing; every ticket in the ledger holds at least one leg.
C7_EmptyParlayRejected ==
  /\ [](\A t \in Tickets : Len(t.legs) >= 1)
  /\ [][(Len(legs) = 0 /\ PlaceBetStep) =>
          (error' = ERR_EMPTY /\ history' = history /\ legs' = legs)]_vars

\* C7 witness: placeBet has rejected the empty parlay while a ticket is on the
\* ledger
C7_Witness ==
  /\ error = ERR_EMPTY
  /\ legs = <<>>
  /\ Len(history) >= 1

\* C8: a step that changes the ledger puts exactly one new ticket at its
\* front, holding the parlay's legs in order, the bet amount and the result
\* pending, and leaves the parlay empty and the error cleared.
C8_AcceptedTicketAtFront ==
  [][history' # history =>
       /\ Len(history') = Len(history) + 1
       /\ Tail(history') = history
       /\ Head(history').legs = legs
       /\ Head(history').betAmount = betAmount
       /\ Head(history').result = "pending"
       /\ legs' = <<>>
       /\ error' = ""]_vars

\* C8 witness: a ticket of two different legs has been put in front of an
\* older ticket
C8_Witness ==
  /\ Len(history) = 2
  /\ Len(history[1].legs) = 2
  /\ history[1].legs[1] # history[1].legs[2]
  /\ history[1] # history[2]
  /\ legs = <<>>
  /\ error = ""

\* C9: across every step the ledger before the step is a suffix of the ledger
\* after it.
C9_LedgerAppendOnly ==
  [][/\ Len(history') >= Len(history)
     /\ SubSeq(history', Len(history') - Len(history) + 1, Len(history')) = history]_vars

\* C9 witness: the parlay is being edited after two different tickets were
\* recorded
C9_Witness ==
  /\ Len(history) = 2
  /\ history[1] # history[2]
  /\ Len(legs) >= 1

\* C10: every leg in the parlay and in every ticket has a win probability p
\* with 0 < p <= 0.25 and finite positive payout odds.
C10_LegProbabilityInRange ==
  \A ls \in {legs} \cup {t.legs : t \in Tickets} :
    \A i \in 1..Len(ls) :
      /\ NGt(ls[i].probability, Zero(1))
      /\ NLe(ls[i].probability, WIN_CAP)
      /\ ls[i].payoutOdds.k = "fin"
      /\ NGt(ls[i].payoutOdds, Zero(1))

\* the legs held anywhere: in the parlay and in the tickets of the ledger
HeldLegs ==
  {legs[i] : i \in 1..Len(legs)} \cup
  UNION {{t.legs[i] : i \in 1..Len(t.legs)} : t \in Tickets}

\* narrowLimit <= (upper - lower) / price <= wideLimit, in the arithmetic of
\* the program (false when the quotient is NaN)
WidthInLimits(lower, upper, price) ==
  LET width == NDiv(NSub(upper, lower), price)
  IN  /\ width.k # "nan"
      /\ ~NLt(width, RANGE_LIMITS.narrow)
      /\ ~NGt(width, RANGE_LIMITS.wide)

\* C11: addLeg appends exactly one leg, built from the current inputs, at the
\* end of the parlay and leaves the older legs and the ledger unchanged if and
\* only if 0.01 <= (upper - lower) / live price <= 0.30; otherwise it sets an
\* error and leaves parlay and ledger unchanged.  Every leg in the parlay or in
\* a ticket has upper > lower and a width within the limits of the quote it
\* was added at.
C11_AddLegIffWidthInLimits ==
  /\ [](\A leg \in HeldLegs :
         /\ NGt(leg.upperBound, leg.lowerBound)
         /\ WidthInLimits(leg.lowerBound, leg.upperBound, Quote))
  /\ [][AddLeg =>
          IF WidthInLimits(lowerBound, upperBound, livePrice)
          THEN /\ Len(legs') = Len(legs) + 1
               /\ SubSeq(legs', 1, Len(legs)) = legs
               /\ legs'[Len(legs')].asset = selectedAsset
               /\ legs'[Len(legs')].timeframe = timeframe
               /\ legs'[Len(legs')].lowerBound = lowerBound
               /\ legs'[Len(legs')].upperBound = upperBound
               /\ history' = history
          ELSE /\ error' # ""
               /\ legs' = legs
               /\ history' = history]_vars

\* C11 witness: addLeg has refused the bounds 99.3 and 129.3, whose width is
\* above the wide limit by the rounding of the bounds, on a parlay of one leg,
\* with a ticket of two different legs on the ledger, one of them exactly as
\* wide as the wide limit
C11_Witness ==
  /\ error = ERR_RANGE
  /\ livePrice = Quote
  /\ lowerBound = OffLower
  /\ upperBound = OffUpper
  /\ ~WidthInLimits(lowerBound, upperBound, livePrice)
  /\ Len(legs) = 1
  /\ Len(history) >= 1
  /\ Len(history[1].legs) = 2
  /\ history[1].legs[1] # history[1].legs[2]
  /\ \E i \in 1..2 : /\ history[1].legs[i].lowerBound = NearLower
                     /\ history[1].legs[i].upperBound = WideUpper

\* the odds the exposure check of placeBet computes for a parlay (line 140)
ExposureOdds(ls) == CalculatePayoutOdds(GetCombinedProb(ls))

\* the number a string made by toFixed(2) reads as: the double nearest the
\* decimal.  Below 2^46 the count of hundredths is an exact double and one
\* division rounds it; from 2^46 on the doubles are at least 1/64 apart and
\* the sum of the whole part and the hundredths rounds to the same double
ToNumber(str) ==
  IF str.whole.k # "fin" THEN [str.whole EXCEPT !.s = str.s]
  ELSE NMul(FromInt(str.s),
            IF NLt(str.whole, Pow2(46))
            THEN NDiv(NAdd(NMul(str.whole, FromInt(100)), FromInt(str.cents)),
                      FromInt(100))
            ELSE NAdd(str.whole, NDiv(FromInt(str.cents), FromInt(100))))

\* the combined odds a ticket stores, as a number
StoredOdds(t) ==
  IF t.combinedPayout.k = "str" THEN ToNumber(t.combinedPayout)
  ELSE t.combinedPayout

\* C12: the combined odds stored in every ticket of the ledger equal
\* payoutOdds(min(combinedProbability(ticket.legs), 0.25)) recomputed from the
\* ticket's legs, and equal the odds the exposure check used for those legs.
C12_StoredOddsRoundTrip ==
  \A t \in Tickets :
    /\ StoredOdds(t) = CalculatePayoutOdds(NMin(GetCombinedProb(t.legs), WIN_CAP))
    /\ StoredOdds(t) = ExposureOdds(t.legs)

\* all legs of the parlay are the same leg
IdenticalLegs == \A i \in 1..Len(legs) : legs[i] = legs[1]

\* p * 0.85 * bonus(n) for the parlay of n >= 1 legs, p the probability of
\* its first leg
ScaledLegProbability ==
  NMul(NMul(legs[1].probability, Lit(85, 100)),
       IF Len(legs) = 2 THEN Lit(13, 10)
       ELSE IF Len(legs) = 3 THEN Lit(15, 10)
       ELSE Lit(10, 10))

\* a and b differ by at most 2^-40 of b
WithinRounding(a, b) ==
  NLe(NAbs(NSub(a, b)), NMul(NAbs(b), Pow2(-40)))

\* C13: the combined probability of the empty parlay is 0; that of a parlay
\* of n >= 1 identical legs of probability p is p * 0.85 * bonus, with bonus
\* 1.3 for n = 2, 1.5 for n = 3 and 1.0 for n = 1 and n >= 4, and it is not
\* capped at 0.25.  The equality is the equality of doubles for n = 1 and
\* n = 2 and is taken up to a relative difference of 2^-40 for n >= 3, far
\* more than the rounding of the product of the probabilities and of
\* Math.pow amounts to: what violates this violates the claim as it stands.
C13_CombinedProbabilityOfIdenticalLegs ==
  /\ Len(legs) = 0 => GetCombinedProb(legs) = Zero(1)
  /\ (Len(legs) >= 1 /\ IdenticalLegs) =>
       IF Len(legs) <= 2 THEN GetCombinedProb(legs) = ScaledLegProbability
       ELSE WithinRounding(GetCombinedProb(legs), ScaledLegProbability)

\* C14: removeLeg(i) with 0 <= i < number of legs removes exactly the leg at
\* position i and keeps the others in their order; with any other index it
\* leaves the parlay unchanged.  The ledger, the error and the remaining legs'
\* stored fields are unchanged in both cases.
C14_RemoveLegFrame ==
  [][\A i \in -1..MaxParlay :
       RemoveLeg(i) =>
         /\ IF 0 <= i /\ i < Len(legs)
            THEN /\ Len(legs') = Len(legs) - 1
                 /\ \A j \in 1..Len(legs') :
                      legs'[j] = legs[IF j <= i THEN j ELSE j + 1]
            ELSE legs' = legs
         /\ history' = history
         /\ error' = error]_vars

\* C14 witness: one leg is left of a parlay that placeBet refused for its
\* combined probability, and the refusal is still shown
C14_Witness ==
  /\ error = ERR_PROB
  /\ Len(legs) = 1

\* C15: placeBet records a ticket exactly when the parlay is not empty, the
\* live combined probability is <= 0.25 and the live potential payout is
\* <= treasury size * max payout fraction (2000 dollars).
C15_IndicatorsAgreeWithGate ==
  [][PlaceBetStep =>
       (history' # history <=>
          /\ Len(legs) > 0
          /\ NLe(LiveCombinedProbability, WIN_CAP)
          /\ NLe(LivePotentialPayout, ExposureLimit))]_vars

\* C16 as stated: a parlay of one leg or of four or more legs has a combined
\* probability of at most 0.2125, and placeBet sets the probability-cap
\* reason only on parlays of exactly two or exactly three legs.
C16_Exact ==
  /\ []((Len(legs) = 1 \/ Len(legs) >= 4) =>
          NLe(GetCombinedProb(legs), Lit(2125, 10000)))
  /\ [][(error' = ERR_PROB /\ PlaceBetStep) => Len(legs) \in {2, 3}]_vars

\* C16: a parlay of one leg or of four or more legs has a combined
\* probability of at most 0.2125 up to the rounding of the double arithmetic
\* (at most 0.2125 * (1 + 2^-40)), which is below the cap of 0.25, and
\* placeBet sets the probability-cap reason only on parlays of exactly two
\* or exactly three legs.
C16_CapRejectionOnlyForTwoOrThreeLegs ==
  /\ []((Len(legs) = 1 \/ Len(legs) >= 4) =>
          /\ NLe(GetCombinedProb(legs),
                 NMul(Lit(2125, 10000), NAdd(ONE, Pow2(-40))))
          /\ NLe(GetCombinedProb(legs), WIN_CAP))
  /\ [][(error' = ERR_PROB /\ PlaceBetStep) => Len(legs) \in {2, 3}]_vars

\* C16 witness: a parlay of four or more legs, each of the highest
\* probability 0.25, whose combined probability the rounding of Math.pow
\* puts above 0.2125, has passed the probability-cap check and is on the
\* ledger
C16_Witness ==
  /\ Len(history) = 1
  /\ Len(history[1].legs) >= 4
  /\ \A i \in 1..Len(history[1].legs) : history[1].legs[i].probability = WIN_CAP
  /\ NGt(GetCombinedProb(history[1].legs), Lit(2125, 10000))

\* C17: the tickets of the ledger have pairwise distinct identifiers, also
\* when bets are placed while the clock has not advanced.
C17_DistinctTicketIds ==
  \A i, j \in 1..Len(history) : i # j => history[i].id # history[j].id

====
